---- MODULE Spec2Model ----
(***************************************************************************)
(* Model of the objst bucket (src/bucket.go): three key-value maps         *)
(* (payload by id, id by <name>_<owner>, metadata by id) and the create,   *)
(* get, delete and query operations on them, with the queries of           *)
(* src/query.go.                                                           *)
(*                                                                         *)
(* Spec, SpecFaults, SpecOrphan: every public method of Bucket is one      *)
(* action that runs the whole method.  Under Spec every storage write      *)
(* succeeds and Shutdown closes the maps; under SpecFaults and SpecOrphan  *)
(* one storage write, scan or Close of a behaviour returns an error,       *)
(* chosen as an input of the call it fails in (fault).  A write batch      *)
(* commits its pending entries at Flush, and earlier whenever they fill a  *)
(* transaction, which is an input of BatchCreate.                          *)
(*                                                                         *)
(* SpecSteps, SpecCreateRace, SpecRace, SpecGetRace: the methods taken one *)
(* storage transaction at a time, called by one goroutine (SpecSteps) or   *)
(* by two that interleave (procs).                                         *)
(*                                                                         *)
(* SpecPkg: the earlier Bucket of package bucket (src/bucket/bucket.go),   *)
(* opened on what earlier runs left on disk, its methods taken one storage *)
(* transaction at a time and interleaved with the steps of its gc          *)
(* goroutine.                                                              *)
(***************************************************************************)
EXTENDS Integers, Sequences, FiniteSets, TLC

VARIABLES payload, name, meta, immutable, last, faulted, procs, shut,
          store, nameDB, closed, ticker, gc, caller

vars == <<payload, name, meta, immutable, last, faulted, procs, shut,
          store, nameDB, closed, ticker, gc, caller>>

\* the state of the Bucket of package objst
bucketVars == <<payload, name, meta, immutable, last, faulted, procs, shut>>

\* the state of the Bucket of package bucket
pkgVars == <<store, nameDB, closed, ticker, gc, caller>>

(* ------------------------------ bounds --------------------------------- *)
\* longest sequence of objects handed to BatchCreate
MaxBatch == 2

(* ------------------------------ strings -------------------------------- *)
Char(s, i) == SubSeq(s, i, i)

HexDigits ==
  {"0", "1", "2", "3", "4", "5", "6", "7", "8", "9",
   "a", "b", "c", "d", "e", "f", "A", "B", "C", "D", "E", "F"}

\* a string in the canonical 8-4-4-4-12 form; the empty string is not one
isValidUUID(s) ==
  /\ Len(s) = 36
  /\ \A i \in 1..36 :
       IF i \in {9, 14, 19, 24} THEN Char(s, i) = "-" ELSE Char(s, i) \in HexDigits

(* ------------------------------ metadata ------------------------------- *)
MetaKeyCreatedAt == "createdAt"
MetaKeyContentType == "contentType"
MetaKeyName == "name"
MetaKeyID == "id"
MetaKeyOwner == "owner"

\* the keys in the byte order in which an encoded record lists them
KeyOrder ==
  <<MetaKeyContentType, MetaKeyCreatedAt, MetaKeyID, MetaKeyName, MetaKeyOwner>>

NewMetadata == << >>

\* Metadata.Get: the value of k, "" when k is not set
MetaGet(m, k) == IF k \in DOMAIN m THEN m[k] ELSE ""

MetaHas(m, k) == k \in DOMAIN m

\* the unprotected setter the query builder uses
set(m, k, v) == [x \in (DOMAIN m) \cup {k} |-> IF x = k THEN v ELSE m[x]]

isEmpty(m) == DOMAIN m = {}

\* the encoded record: the key/value pairs, in key order
Marshal(m) ==
  LET keys == SelectSeq(KeyOrder, LAMBDA k : k \in DOMAIN m)
  IN  [i \in 1..Len(keys) |-> <<keys[i], m[keys[i]]>>]

RECURSIVE UnmarshalFrom(_, _)
UnmarshalFrom(data, m) ==
  IF data = << >> THEN m
  ELSE UnmarshalFrom(Tail(data), set(m, Head(data)[1], Head(data)[2]))

Unmarshal(data) == UnmarshalFrom(data, NewMetadata)

Or == 1
And == 2

or(m, params) == \E k \in DOMAIN params : MetaHas(m, k) /\ m[k] = params[k]

and(m, params) ==
  \A k \in DOMAIN params : params[k] # "" => (MetaHas(m, k) /\ m[k] = params[k])

\* Metadata.Compare: does the record m satisfy the predicate params under act
Compare(m, params, act) == IF act = Or THEN or(m, params) ELSE and(m, params)

(* ------------------------------ objects -------------------------------- *)
\* Object.isValid: name, owner and id are set and well formed, and the
\* content type is set
isValid(obj) ==
  /\ MetaGet(obj.meta, MetaKeyName) # ""
  /\ isValidUUID(MetaGet(obj.meta, MetaKeyOwner))
  /\ isValidUUID(MetaGet(obj.meta, MetaKeyID))
  /\ MetaGet(obj.meta, MetaKeyContentType) # ""

\* Object.Marshal: the stored form of an object, its encoded metadata and
\* its payload bytes
ObjMarshal(obj) == [meta |-> Marshal(obj.meta), pl |-> obj.pl]

\* Object.Unmarshal into an object that already holds its metadata
ObjUnmarshal(obj, data) == [meta |-> obj.meta, pl |-> data.pl]

ID1 == "00000000-0000-4000-8000-000000000001"
ID2 == "00000000-0000-4000-8000-000000000002"
ID3 == "00000000-0000-4000-8000-000000000003"
ID4 == "00000000-0000-4000-8000-000000000004"
ID5 == "00000000-0000-4000-8000-000000000005"
U1 == "aaaaaaaa-0000-4000-8000-00000000000a"
U2 == "bbbbbbbb-0000-4000-8000-00000000000b"

\* The objects a caller holds, each with the id NewObject gave it; the ids are
\* listed in the byte order of the keys.  1 and 2 share (name, owner), 3 has
\* the same name under another owner, 4 has a malformed owner and 5 has no
\* content type.
ObjPool ==
  << [meta |-> [id |-> ID1, name |-> "a", owner |-> U1,
                contentType |-> "text/plain", createdAt |-> "t1"],
      pl |-> <<1, 2>>],
     [meta |-> [id |-> ID2, name |-> "a", owner |-> U1,
                contentType |-> "text/json", createdAt |-> "t2"],
      pl |-> <<3>>],
     [meta |-> [id |-> ID3, name |-> "a", owner |-> U2,
                contentType |-> "text/plain", createdAt |-> "t3"],
      pl |-> << >>],
     [meta |-> [id |-> ID4, name |-> "a", owner |-> "b_" \o U1,
                contentType |-> "text/plain", createdAt |-> "t4"],
      pl |-> <<4>>],
     [meta |-> [id |-> ID5, name |-> "b", owner |-> U2, createdAt |-> "t5"],
      pl |-> <<5>>] >>

Objs == {ObjPool[i] : i \in DOMAIN ObjPool}

IdOrder == [i \in DOMAIN ObjPool |-> ObjPool[i].meta.id]

(* ------------------------------ the maps ------------------------------- *)
\* one badger map: Set, Delete and Get of a key
Put(db, k, v) == [x \in (DOMAIN db) \cup {k} |-> IF x = k THEN v ELSE db[x]]

Remove(db, k) == [x \in (DOMAIN db) \ {k} |-> db[x]]

EmptyDB == << >>

ErrNone == "none"
ErrKeyNotFound == "key not found"
ErrStorage == "storage error"
ErrInvalidObject == "invalid object"
ErrNameExists == "object with the name exists"
ErrEmptyQuery == "empty query"
ErrNameOwnerCtxMissing == "name owner ctx missing"
ErrInvalidOwnerUUID == "invalid uuid for the field owner"
ErrInvalidIDUUID == "invalid uuid for the field id"
ErrDBClosed == "DB Closed"
ErrBlockedWrites == "Writes are blocked"
ErrPanic == "panic"

\* the three maps of a Bucket, in the order in which Shutdown closes them
AllMaps == {"payload", "meta", "name"}

\* the state of the three maps, as the helpers below pass it along; closed:
\* the maps Shutdown has closed, whose every View and Update returns
\* ErrDBClosed
Store == [payload |-> payload, name |-> name, meta |-> meta, closed |-> shut]

\* nameFormat with the owner left out of the key
nameFormatNoOwner(n, owner) == n

nameFormat(n, owner) == n \o "_" \o owner

\* isNameExisting that never finds the key
isNameExistingNever(st, n, owner) == FALSE

\* isNameExisting: every error of the read but ErrKeyNotFound counts as found
isNameExisting(st, n, owner) ==
  "name" \in st.closed \/ nameFormat(n, owner) \in DOMAIN st.name

\* insertName that builds the key from the identity in place of the owner
insertNameUnderID(st, n, owner, id) ==
  [st EXCEPT !.name = Put(st.name, nameFormat(n, id), id)]

insertName(st, n, owner, id) ==
  [st EXCEPT !.name = Put(st.name, nameFormat(n, owner), id)]

\* insertMeta that stores an empty record
insertMetaEmpty(st, id, m) == [st EXCEPT !.meta = Put(st.meta, id, Marshal(NewMetadata))]

insertMeta(st, id, m) == [st EXCEPT !.meta = Put(st.meta, id, Marshal(m))]

insertPayload(st, id, pl) == [st EXCEPT !.payload = Put(st.payload, id, pl)]

deleteName(st, n, owner) ==
  [st EXCEPT !.name = Remove(st.name, nameFormat(n, owner))]

deleteMeta(st, id) == [st EXCEPT !.meta = Remove(st.meta, id)]

deletePayload(st, id) == [st EXCEPT !.payload = Remove(st.payload, id)]

\* createObjectEntry: validate, check the name, build the payload entry
createObjectEntry(st, obj) ==
  IF ~isValid(obj) THEN [err |-> ErrInvalidObject]
  ELSE IF isNameExisting(st, MetaGet(obj.meta, MetaKeyName), MetaGet(obj.meta, MetaKeyOwner))
  THEN [err |-> ErrNameExists]
  ELSE [err |-> ErrNone, key |-> MetaGet(obj.meta, MetaKeyID), value |-> ObjMarshal(obj)]

GetPayload(st, id) ==
  IF "payload" \in st.closed THEN [err |-> ErrDBClosed]
  ELSE IF id \in DOMAIN st.payload
  THEN [err |-> ErrNone, pl |-> st.payload[id]]
  ELSE [err |-> ErrKeyNotFound]

GetMeta(st, id) ==
  IF "meta" \in st.closed THEN [err |-> ErrDBClosed]
  ELSE IF id \in DOMAIN st.meta
  THEN [err |-> ErrNone, meta |-> Unmarshal(st.meta[id])]
  ELSE [err |-> ErrKeyNotFound]

getIDByName(st, n, owner) ==
  IF "name" \in st.closed THEN [err |-> ErrDBClosed]
  ELSE IF nameFormat(n, owner) \in DOMAIN st.name
  THEN [err |-> ErrNone, id |-> st.name[nameFormat(n, owner)]]
  ELSE [err |-> ErrKeyNotFound]

\* composeObject that puts an object together although its payload is gone
composeObjectIgnoreMissing(st, m) ==
  LET pl == GetPayload(st, MetaGet(m, MetaKeyID))
  IN  [err |-> ErrNone,
       obj |-> ObjUnmarshal([meta |-> m],
                            IF pl.err = ErrNone THEN pl.pl
                            ELSE ObjMarshal([meta |-> m, pl |-> << >>]))]

composeObject(st, m) ==
  LET pl == GetPayload(st, MetaGet(m, MetaKeyID))
  IN  IF pl.err # ErrNone THEN [err |-> pl.err]
      ELSE [err |-> ErrNone, obj |-> ObjUnmarshal([meta |-> m], pl.pl)]

composeObjectByID(st, id) ==
  LET m == GetMeta(st, id)
  IN  IF m.err # ErrNone THEN [err |-> m.err] ELSE composeObject(st, m.meta)

GetByIDOf(st, id) == composeObjectByID(st, id)

GetByNameOf(st, n, owner) ==
  LET r == getIDByName(st, n, owner)
  IN  IF r.err # ErrNone THEN [err |-> r.err] ELSE GetByIDOf(st, r.id)

(* ------------------------------ queries -------------------------------- *)
OperationDelete == 1
OperationGet == 2

NewQuery == [params |-> NewMetadata, act |-> Or, op |-> OperationGet]

\* the builder methods Owner, ID, Name and Param all set one param
Param(q, k, v) == [q EXCEPT !.params = set(q.params, k, v)]

Action(q, act) == [q EXCEPT !.act = act]

Operation(q, op) == [q EXCEPT !.op = op]

\* Query.isValid: the error it returns, ErrNone for nil
QueryIsValid(q) ==
  IF isEmpty(q.params) THEN ErrEmptyQuery
  ELSE IF ~isValidUUID(MetaGet(q.params, MetaKeyOwner)) THEN ErrInvalidOwnerUUID
  ELSE IF ~isValidUUID(MetaGet(q.params, MetaKeyID)) THEN ErrInvalidIDUUID
  ELSE IF MetaGet(q.params, MetaKeyName) # "" /\ MetaGet(q.params, MetaKeyOwner) = ""
  THEN ErrNameOwnerCtxMissing
  ELSE ErrNone

\* The predicates the callers build: none, a content type, a name alone, a
\* name and its owner, an owner and an id, a malformed owner, a content type
\* and an owner, and a name, an owner and an empty content type.
ParamSets ==
  { NewQuery,
    Param(NewQuery, MetaKeyContentType, "text/plain"),
    Param(NewQuery, MetaKeyName, "a"),
    Param(Param(NewQuery, MetaKeyName, "a"), MetaKeyOwner, U1),
    Param(Param(NewQuery, MetaKeyOwner, U1), MetaKeyID, ID1),
    Param(NewQuery, MetaKeyOwner, "b_" \o U1),
    Param(Param(NewQuery, MetaKeyContentType, "text/plain"), MetaKeyOwner, U2),
    Param(Param(Param(NewQuery, MetaKeyName, "a"), MetaKeyOwner, U1),
          MetaKeyContentType, "") }

Queries ==
  {Operation(Action(q, act), op) :
     q \in ParamSets, act \in {Or, And}, op \in {OperationDelete, OperationGet}}

(* ------------------------------ faults --------------------------------- *)
\* The storage write that returns an error in a call: the step of the k-th
\* object or identity the call handles; k = 0 when every write succeeds.
NoFault == [k |-> 0, step |-> "none"]

fails(fault, k, step) == fault.k = k /\ fault.step = step

(* ------------------------------ the bucket ----------------------------- *)
\* The result of a call: the maps after it, the error it returns, whether
\* the failing write was reached, the objects it returns, and the identities
\* of the argument objects it has marked as immutable.
Result(st, err, hit, res) ==
  [st |-> st, err |-> err, hit |-> hit, res |-> res, marked |-> {}]

\* obj.markAsImmutable() on the object of identity id, in a call that goes on
\* to the result r
markAsImmutable(id, r) == [r EXCEPT !.marked = @ \cup {id}]

\* The k-th write of a call into the map db: the injected error when the
\* fault is this write, ErrDBClosed when the map is closed, else nil
WriteErr(st, fault, k, db) ==
  IF fails(fault, k, db) THEN ErrStorage
  ELSE IF db \in st.closed THEN ErrDBClosed
  ELSE ErrNone

\* the result of a call that returns the error of its k-th write into db
WriteFailed(st, fault, k, db) ==
  Result(st, WriteErr(st, fault, k, db), fails(fault, k, db), << >>)

\* Create that sets the immutable flag before the metadata write
CreateOfMarkEarly(st, obj, fault) ==
  LET e  == createObjectEntry(st, obj)
      n  == MetaGet(obj.meta, MetaKeyName)
      o  == MetaGet(obj.meta, MetaKeyOwner)
      id == MetaGet(obj.meta, MetaKeyID)
  IN  IF e.err # ErrNone THEN Result(st, e.err, FALSE, << >>)
      ELSE IF fails(fault, 1, "payload") THEN Result(st, ErrStorage, TRUE, << >>)
      ELSE LET s1 == insertPayload(st, e.key, e.value)
           IN  IF fails(fault, 1, "name") THEN Result(s1, ErrStorage, TRUE, << >>)
               ELSE LET s2 == insertName(s1, n, o, id)
                    IN  markAsImmutable(id,
                          IF fails(fault, 1, "meta")
                          THEN Result(s2, ErrStorage, TRUE, << >>)
                          ELSE Result(insertMeta(s2, id, obj.meta), ErrNone, FALSE, << >>))

CreateOf(st, obj, fault) ==
  LET e  == createObjectEntry(st, obj)
      n  == MetaGet(obj.meta, MetaKeyName)
      o  == MetaGet(obj.meta, MetaKeyOwner)
      id == MetaGet(obj.meta, MetaKeyID)
  IN  IF e.err # ErrNone THEN Result(st, e.err, FALSE, << >>)
      ELSE IF WriteErr(st, fault, 1, "payload") # ErrNone
      THEN WriteFailed(st, fault, 1, "payload")
      ELSE LET s1 == insertPayload(st, e.key, e.value)
           IN  IF WriteErr(s1, fault, 1, "name") # ErrNone
               THEN WriteFailed(s1, fault, 1, "name")
               ELSE LET s2 == insertName(s1, n, o, id)
                    IN  IF WriteErr(s2, fault, 1, "meta") # ErrNone
                        THEN WriteFailed(s2, fault, 1, "meta")
                        ELSE markAsImmutable(id,
                               Result(insertMeta(s2, id, obj.meta), ErrNone, FALSE, << >>))

\* the commit of a write batch: the payload entries set and not yet
\* committed are written together
RECURSIVE Flush(_, _)
Flush(st, wb) ==
  IF wb = << >> THEN st
  ELSE Flush(insertPayload(st, Head(wb).key, Head(wb).value), Tail(wb))

\* the loop of BatchCreate with each payload written at once, as Create does
RECURSIVE BatchLoopEager(_, _, _, _, _, _)
BatchLoopEager(st, wb, objs, k, fault, big) ==
  IF k > Len(objs)
  THEN IF fails(fault, k, "flush") THEN Result(st, ErrStorage, TRUE, << >>)
       ELSE Result(st, ErrNone, FALSE, << >>)
  ELSE
    LET obj == objs[k]
        e   == createObjectEntry(st, obj)
        n   == MetaGet(obj.meta, MetaKeyName)
        o   == MetaGet(obj.meta, MetaKeyOwner)
        id  == MetaGet(obj.meta, MetaKeyID)
    IN  IF e.err # ErrNone THEN Result(st, e.err, FALSE, << >>)
        ELSE IF fails(fault, k, "payload") THEN Result(st, ErrStorage, TRUE, << >>)
        ELSE LET s0 == insertPayload(st, e.key, e.value)
             IN  IF fails(fault, k, "name") THEN Result(s0, ErrStorage, TRUE, << >>)
                 ELSE LET s1 == insertName(s0, n, o, id)
                      IN  IF fails(fault, k, "meta")
                          THEN Result(s1, ErrStorage, TRUE, << >>)
                          ELSE markAsImmutable(id,
                                 BatchLoopEager(insertMeta(s1, id, obj.meta), wb,
                                                objs, k + 1, fault, big))

\* wb.SetEntry of the entry e.  An entry that the pending transaction of the
\* batch has no room for (grown) makes the batch commit the entries pending
\* and start a new transaction with e; the commit is refused when the payload
\* map is closed.  The result: the error, the maps and the pending entries.
SetEntry(st, wb, e, grown) ==
  IF grown /\ wb # << >>
  THEN IF "payload" \in st.closed THEN [err |-> ErrBlockedWrites, st |-> st, wb |-> wb]
       ELSE [err |-> ErrNone, st |-> Flush(st, wb), wb |-> <<e>>]
  ELSE [err |-> ErrNone, st |-> st, wb |-> Append(wb, e)]

\* The loop of BatchCreate from the k-th object on; wb holds the payload
\* entries set and not yet committed, which a return before Flush cancels;
\* big: the positions whose entry the pending transaction has no room for.
RECURSIVE BatchLoop(_, _, _, _, _, _)
BatchLoop(st, wb, objs, k, fault, big) ==
  IF k > Len(objs)
  THEN IF fails(fault, k, "flush") THEN Result(st, ErrStorage, TRUE, << >>)
       ELSE IF "payload" \in st.closed /\ wb # << >>
       THEN Result(st, ErrBlockedWrites, FALSE, << >>)
       ELSE Result(Flush(st, wb), ErrNone, FALSE, << >>)
  ELSE
    LET obj == objs[k]
        e   == createObjectEntry(st, obj)
        n   == MetaGet(obj.meta, MetaKeyName)
        o   == MetaGet(obj.meta, MetaKeyOwner)
        id  == MetaGet(obj.meta, MetaKeyID)
    IN  IF e.err # ErrNone THEN Result(st, e.err, FALSE, << >>)
        ELSE IF fails(fault, k, "payload") THEN Result(st, ErrStorage, TRUE, << >>)
        ELSE LET w == SetEntry(st, wb, [key |-> e.key, value |-> e.value], k \in big)
             IN  IF w.err # ErrNone THEN Result(w.st, w.err, FALSE, << >>)
                 ELSE IF WriteErr(w.st, fault, k, "name") # ErrNone
                 THEN WriteFailed(w.st, fault, k, "name")
                 ELSE LET s1 == insertName(w.st, n, o, id)
                      IN  IF WriteErr(s1, fault, k, "meta") # ErrNone
                          THEN WriteFailed(s1, fault, k, "meta")
                          ELSE markAsImmutable(id,
                                 BatchLoop(insertMeta(s1, id, obj.meta), w.wb,
                                           objs, k + 1, fault, big))

BatchCreateOf(st, objs, fault, big) == BatchLoop(st, << >>, objs, 1, fault, big)

\* deleteObject that leaves the name entry behind
deleteObjectKeepName(st, m, k, fault) ==
  LET id == MetaGet(m, MetaKeyID)
  IN  IF fails(fault, k, "payload") THEN Result(st, ErrStorage, TRUE, << >>)
      ELSE LET s2 == deletePayload(st, id)
           IN  IF fails(fault, k, "meta") THEN Result(s2, ErrStorage, TRUE, << >>)
               ELSE Result(deleteMeta(s2, id), ErrNone, FALSE, << >>)

\* deleteObject that leaves the payload entry behind
deleteObjectKeepPayload(st, m, k, fault) ==
  LET id == MetaGet(m, MetaKeyID)
      n  == MetaGet(m, MetaKeyName)
      o  == MetaGet(m, MetaKeyOwner)
  IN  IF fails(fault, k, "name") THEN Result(st, ErrStorage, TRUE, << >>)
      ELSE LET s1 == deleteName(st, n, o)
           IN  IF fails(fault, k, "meta") THEN Result(s1, ErrStorage, TRUE, << >>)
               ELSE Result(deleteMeta(s1, id), ErrNone, FALSE, << >>)

\* deleteObject as the k-th delete of a call
deleteObject(st, m, k, fault) ==
  LET id == MetaGet(m, MetaKeyID)
      n  == MetaGet(m, MetaKeyName)
      o  == MetaGet(m, MetaKeyOwner)
  IN  IF WriteErr(st, fault, k, "name") # ErrNone THEN WriteFailed(st, fault, k, "name")
      ELSE LET s1 == deleteName(st, n, o)
           IN  IF WriteErr(s1, fault, k, "payload") # ErrNone
               THEN WriteFailed(s1, fault, k, "payload")
               ELSE LET s2 == deletePayload(s1, id)
                    IN  IF WriteErr(s2, fault, k, "meta") # ErrNone
                        THEN WriteFailed(s2, fault, k, "meta")
                        ELSE Result(deleteMeta(s2, id), ErrNone, FALSE, << >>)

DeleteByIDAt(st, id, k, fault) ==
  LET m == GetMeta(st, id)
  IN  IF m.err # ErrNone THEN Result(st, m.err, FALSE, << >>)
      ELSE deleteObject(st, m.meta, k, fault)

DeleteByIDOf(st, id, fault) == DeleteByIDAt(st, id, 1, fault)

\* DeleteByName that removes the three entries of the identity the name maps
\* to without reading its metadata first
DeleteByNameOfDirect(st, n, owner, fault) ==
  LET r == getIDByName(st, n, owner)
  IN  IF r.err # ErrNone THEN Result(st, r.err, FALSE, << >>)
      ELSE Result(deleteMeta(deletePayload(deleteName(st, n, owner), r.id), r.id),
                  ErrNone, FALSE, << >>)

DeleteByNameOf(st, n, owner, fault) ==
  LET r == getIDByName(st, n, owner)
  IN  IF r.err # ErrNone THEN Result(st, r.err, FALSE, << >>)
      ELSE DeleteByIDOf(st, r.id, fault)

\* getMatchingIDs that returns from the scan after its first record
getMatchingIDsFirst(st, q) ==
  LET keys == SelectSeq(IdOrder, LAMBDA id : id \in DOMAIN st.meta)
  IN  IF keys # << >> /\ Compare(Unmarshal(st.meta[Head(keys)]), q.params, q.act)
      THEN <<Head(keys)>>
      ELSE << >>

\* getMatchingIDs: the scan of the metadata map in key order, collecting the
\* key of every record that matches
getMatchingIDs(st, q) ==
  SelectSeq(IdOrder,
            LAMBDA id : /\ id \in DOMAIN st.meta
                        /\ Compare(Unmarshal(st.meta[id]), q.params, q.act))

RECURSIVE idsToObjsFrom(_, _, _)
idsToObjsFrom(st, ids, objs) ==
  IF ids = << >> THEN Result(st, ErrNone, FALSE, objs)
  ELSE LET r == composeObjectByID(st, Head(ids))
       IN  IF r.err # ErrNone THEN Result(st, r.err, FALSE, << >>)
           ELSE idsToObjsFrom(st, Tail(ids), Append(objs, r.obj))

idsToObjs(st, ids) == idsToObjsFrom(st, ids, << >>)

GetOf(st, q, fault) ==
  IF fails(fault, 1, "scan") THEN Result(st, ErrStorage, TRUE, << >>)
  ELSE IF "meta" \in st.closed THEN Result(st, ErrDBClosed, FALSE, << >>)
  ELSE idsToObjs(st, getMatchingIDs(st, q))

RECURSIVE DeleteLoop(_, _, _, _)
DeleteLoop(st, ids, k, fault) ==
  IF k > Len(ids) THEN Result(st, ErrNone, FALSE, << >>)
  ELSE LET r == DeleteByIDAt(st, ids[k], k, fault)
       IN  IF r.err # ErrNone THEN r ELSE DeleteLoop(r.st, ids, k + 1, fault)

\* Delete: a failed scan is answered with nil
DeleteOf(st, q, fault) ==
  IF fails(fault, 1, "scan") THEN Result(st, ErrNone, TRUE, << >>)
  ELSE IF "meta" \in st.closed THEN Result(st, ErrNone, FALSE, << >>)
  ELSE DeleteLoop(st, getMatchingIDs(st, q), 1, fault)

ExecuteOf(st, q, fault) ==
  IF QueryIsValid(q) # ErrNone THEN Result(st, QueryIsValid(q), FALSE, << >>)
  ELSE IF q.op = OperationGet THEN GetOf(st, q, fault)
  ELSE DeleteOf(st, q, fault)

(* ------------------------------ inputs --------------------------------- *)
Ids == {IdOrder[i] : i \in DOMAIN IdOrder}

NameOwners ==
  {<<MetaGet(o.meta, MetaKeyName), MetaGet(o.meta, MetaKeyOwner)>> : o \in Objs}

\* the sequences of distinct pool objects of length at most MaxBatch
Batches ==
  {b \in UNION {[1..n -> DOMAIN ObjPool] : n \in 0..MaxBatch} :
     \A i, j \in DOMAIN b : i # j => b[i] # b[j]}

BatchObjs(b) == [i \in DOMAIN b |-> ObjPool[b[i]]]

WriteSteps == {"payload", "name", "meta"}

\* the writes of a call that handles n objects or identities
WriteFaults(n) == {[k |-> k, step |-> s] : k \in 1..n, s \in WriteSteps}

FlushFault(n) == [k |-> n + 1, step |-> "flush"]

ScanFault == [k |-> 1, step |-> "scan"]

NoQuery == NewQuery

\* the record of the last call: its inputs, the write that failed in it, the
\* error and the objects it returned
Call(op, objs, id, n, owner, q, fault, r) ==
  [op |-> op, objs |-> objs, id |-> id, nm |-> n, owner |-> owner, q |-> q,
   fault |-> fault, err |-> r.err, res |-> r.res]

\* A Bucket whose three maps are closed is called once more: on closed maps
\* a call changes nothing but the record of the last call, so the state a
\* later call leaves is the state it leaves as the first call after Shutdown.
InService == shut # AllMaps \/ last.op = "Shutdown"

\* a call ends: the maps are as it left them; a failing write is one the call
\* reached, and the only one of the behaviour
Commit(r, fault) ==
  /\ InService
  /\ fault # NoFault => (r.hit /\ ~faulted)
  /\ faulted' = (faulted \/ fault # NoFault)
  /\ payload' = r.st.payload
  /\ name' = r.st.name
  /\ meta' = r.st.meta
  /\ immutable' = immutable \cup r.marked
  /\ UNCHANGED <<procs, shut>>
  /\ UNCHANGED pkgVars

\* the goroutines that call the bucket at the same time
Goroutines == {"g1", "g2"}

\* a goroutine that is in no call
Idle ==
  [op |-> "idle", pc |-> "idle", objs |-> << >>, id |-> "", q |-> NoQuery, k |-> 0,
   ids |-> << >>, m |-> NewMetadata, wb |-> << >>, err |-> ErrNone, res |-> << >>]

(* ------------------------------ actions -------------------------------- *)
\* the Bucket NewBucket returns: three open maps
InitBucket ==
  /\ payload = EmptyDB
  /\ name = EmptyDB
  /\ meta = EmptyDB
  /\ immutable = {}
  /\ procs = [p \in Goroutines |-> Idle]
  /\ shut = {}
  /\ faulted = FALSE
  /\ last = [op |-> "NewBucket", objs |-> << >>, id |-> "", nm |-> "", owner |-> "",
             q |-> NoQuery, fault |-> NoFault, err |-> ErrNone, res |-> << >>]

\* a caller of package bucket that is in no call
PkgIdle ==
  [op |-> "idle", pc |-> "idle", arg |-> << >>, k |-> 0, wb |-> << >>, id |-> "",
   err |-> ErrNone, res |-> << >>]

\* New of package bucket has not been called: no maps are open, no gc runs
NoPkg ==
  /\ store = EmptyDB
  /\ nameDB = EmptyDB
  /\ closed = FALSE
  /\ ticker = "none"
  /\ gc = "none"
  /\ caller = PkgIdle

Init == InitBucket /\ NoPkg

CreateWith(fault) ==
  \E i \in DOMAIN ObjPool :
    LET r == CreateOf(Store, ObjPool[i], fault)
    IN  /\ Commit(r, fault)
        /\ last' = Call("Create", <<i>>, "", "", "", NoQuery, fault, r)

\* the sets of positions of a batch of n entries at which the pending
\* transaction can be full: any but the first
Grown(n) == SUBSET (2..n)

\* BatchCreate of the batch b: one of the results the call can have, over the
\* positions at which the pending transaction is full
BatchCreateWith(b, fault) ==
  /\ InService
  /\ \E r \in {BatchCreateOf(Store, BatchObjs(b), fault, big) : big \in Grown(Len(b))} :
       /\ Commit(r, fault)
       /\ last' = Call("BatchCreate", b, "", "", "", NoQuery, fault, r)

DeleteByIDWith(fault) ==
  \E id \in Ids :
    LET r == DeleteByIDOf(Store, id, fault)
    IN  /\ Commit(r, fault)
        /\ last' = Call("DeleteByID", << >>, id, "", "", NoQuery, fault, r)

DeleteByNameWith(fault) ==
  \E no \in NameOwners :
    LET r == DeleteByNameOf(Store, no[1], no[2], fault)
    IN  /\ Commit(r, fault)
        /\ last' = Call("DeleteByName", << >>, "", no[1], no[2], NoQuery, fault, r)

GetWith(q, fault) ==
  LET r == GetOf(Store, q, fault)
  IN  /\ Commit(r, fault)
      /\ last' = Call("Get", << >>, "", "", "", q, fault, r)

DeleteWith(q, fault) ==
  LET r == DeleteOf(Store, q, fault)
  IN  /\ Commit(r, fault)
      /\ last' = Call("Delete", << >>, "", "", "", q, fault, r)

ExecuteWith(q, fault) ==
  LET r == ExecuteOf(Store, q, fault)
  IN  /\ Commit(r, fault)
      /\ last' = Call("Execute", << >>, "", "", "", q, fault, r)

\* the calls in which every storage write succeeds
Create == CreateWith(NoFault)

BatchCreate == \E b \in Batches : BatchCreateWith(b, NoFault)

GetByID ==
  \E id \in Ids :
    LET g == GetByIDOf(Store, id)
        r == Result(Store, g.err, FALSE, IF g.err = ErrNone THEN <<g.obj>> ELSE << >>)
    IN  /\ Commit(r, NoFault)
        /\ last' = Call("GetByID", << >>, id, "", "", NoQuery, NoFault, r)

GetByName ==
  \E no \in NameOwners :
    LET g == GetByNameOf(Store, no[1], no[2])
        r == Result(Store, g.err, FALSE, IF g.err = ErrNone THEN <<g.obj>> ELSE << >>)
    IN  /\ Commit(r, NoFault)
        /\ last' = Call("GetByName", << >>, "", no[1], no[2], NoQuery, NoFault, r)

DeleteByID == DeleteByIDWith(NoFault)

\* the order of the Close calls of Shutdown
CloseOrder == <<"payload", "meta", "name">>

\* Shutdown: payload.Close(), meta.Close() and name.Close().  With k = 0 each
\* returns nil; else the k-th returns an error, with its map closed or not
\* (shutK), and Shutdown returns it without closing the maps after it.  Close
\* of a map that is closed already does nothing.
ShutdownWith(k, shutK) ==
  LET fault == IF k = 0 THEN NoFault ELSE [k |-> k, step |-> "close"]
      done  == IF k = 0 THEN AllMaps
               ELSE {CloseOrder[i] : i \in 1..(k - 1)}
                      \cup (IF shutK THEN {CloseOrder[k]} ELSE {})
  IN  /\ InService
      /\ fault # NoFault => ~faulted
      /\ faulted' = (faulted \/ fault # NoFault)
      /\ shut' = shut \cup done
      /\ last' = Call("Shutdown", << >>, "", "", "", NoQuery, fault,
                      Result(Store, IF k = 0 THEN ErrNone ELSE ErrStorage, k # 0, << >>))
      /\ UNCHANGED <<payload, name, meta, immutable, procs>>
      /\ UNCHANGED pkgVars

Shutdown == ShutdownWith(0, FALSE)

DeleteByName == DeleteByNameWith(NoFault)

Get == \E q \in Queries : q.op = OperationGet /\ GetWith(q, NoFault)

Delete == \E q \in Queries : q.op = OperationDelete /\ DeleteWith(q, NoFault)

Execute == \E q \in Queries : ExecuteWith(q, NoFault)

Next ==
  \/ Create
  \/ BatchCreate
  \/ GetByID
  \/ GetByName
  \/ Get
  \/ DeleteByID
  \/ DeleteByName
  \/ Delete
  \/ Execute
  \/ Shutdown

Spec == Init /\ [][Next]_vars

\* the calls in which one storage write returns an error
CreateFault == ~faulted /\ \E fault \in WriteFaults(1) : CreateWith(fault)

BatchCreateFault ==
  /\ ~faulted
  /\ \E b \in Batches :
      \E fault \in WriteFaults(Len(b)) \cup {FlushFault(Len(b))} : BatchCreateWith(b, fault)

DeleteByIDFault == ~faulted /\ \E fault \in WriteFaults(1) : DeleteByIDWith(fault)

\* Shutdown in which one Close returns an error
ShutdownFault ==
  \E k \in DOMAIN CloseOrder, shutK \in BOOLEAN :
    CloseOrder[k] \notin shut /\ ShutdownWith(k, shutK)

\* Delete in which the scan of the metadata-index returns an error
DeleteFault ==
  /\ ~faulted
  /\ \E q \in Queries : q.op = OperationDelete /\ DeleteWith(q, ScanFault)

NextFaults ==
  \/ Create
  \/ GetByID
  \/ GetByName
  \/ DeleteByID
  \/ DeleteByName
  \/ CreateFault
  \/ BatchCreateFault
  \/ DeleteByIDFault
  \/ DeleteFault
  \/ Shutdown
  \/ ShutdownFault

SpecFaults == Init /\ [][NextFaults]_vars

\* Create in which the metadata write returns an error
CreateMetaFault == ~faulted /\ CreateWith([k |-> 1, step |-> "meta"])

\* Execute of a delete query
ExecuteDelete == \E q \in Queries : q.op = OperationDelete /\ ExecuteWith(q, NoFault)

\* the calls that write, with at most one Create whose metadata write fails
NextOrphan ==
  \/ Create
  \/ BatchCreate
  \/ DeleteByID
  \/ DeleteByName
  \/ Delete
  \/ ExecuteDelete
  \/ CreateMetaFault

SpecOrphan == Init /\ [][NextOrphan]_vars

(* ------------------------- calls step by step -------------------------- *)
NameOf(o) == MetaGet(o.meta, MetaKeyName)

OwnerOf(o) == MetaGet(o.meta, MetaKeyOwner)

IdOf(o) == MetaGet(o.meta, MetaKeyID)

NameKeyOf(o) == nameFormat(NameOf(o), OwnerOf(o))

\* A goroutine calling the bucket: the method it is in (op), the next storage
\* transaction of that method (pc), the arguments (objs, id, q), the locals
\* (k: loop index, ids: scanned identities, m: metadata read, wb: payload
\* entries set in the write batch) and, once it has returned, the error and
\* the objects returned.  Every badger View, Update and Flush is one step.
Returned(pr, err, res) == [pr EXCEPT !.pc = "done", !.err = err, !.res = res]

CanCall(p) == procs[p].pc \in {"idle", "done"}

At(p, op, pc) == procs[p].op = op /\ procs[p].pc = pc

\* one step of goroutine p: the maps and flags after it, and where p is then
Step(p, st, imm, pr) ==
  /\ payload' = st.payload
  /\ name' = st.name
  /\ meta' = st.meta
  /\ immutable' = imm
  /\ procs' = [procs EXCEPT ![p] = pr]
  /\ UNCHANGED <<last, faulted, shut>>
  /\ UNCHANGED pkgVars

\* the object goroutine p is handling
ProcObj(pr) == ObjPool[pr.objs[pr.k]]

\* Create, entered: createObjectEntry validates the object and reads the name map
CreateCheck(p, pool) ==
  /\ CanCall(p)
  /\ \E i \in pool :
       LET pr == [Idle EXCEPT !.op = "Create", !.objs = <<i>>, !.k = 1]
           e  == createObjectEntry(Store, ObjPool[i])
       IN  Step(p, Store, immutable,
                IF e.err # ErrNone THEN Returned(pr, e.err, << >>)
                ELSE [pr EXCEPT !.pc = "payload"])

CreatePayload(p) ==
  /\ At(p, "Create", "payload")
  /\ Step(p, insertPayload(Store, IdOf(ProcObj(procs[p])), ObjMarshal(ProcObj(procs[p]))),
          immutable, [procs[p] EXCEPT !.pc = "name"])

CreateName(p) ==
  /\ At(p, "Create", "name")
  /\ LET o == ProcObj(procs[p])
     IN  Step(p, insertName(Store, NameOf(o), OwnerOf(o), IdOf(o)), immutable,
              [procs[p] EXCEPT !.pc = "meta"])

\* the metadata write, after which the object is marked and the call returns
CreateMeta(p) ==
  /\ At(p, "Create", "meta")
  /\ LET o == ProcObj(procs[p])
     IN  Step(p, insertMeta(Store, IdOf(o), o.meta), immutable \cup {IdOf(o)},
              Returned(procs[p], ErrNone, << >>))

\* BatchCreate, entered: a new write batch
BatchStart(p) ==
  /\ CanCall(p)
  /\ \E b \in Batches :
       Step(p, Store, immutable,
            [Idle EXCEPT !.op = "BatchCreate", !.objs = b, !.k = 1,
                         !.pc = IF b = << >> THEN "flush" ELSE "check"])

\* createObjectEntry of the k-th object and SetEntry of its payload, with or
\* without room in the pending transaction; an error returns, and the
\* deferred Cancel drops the pending entries
BatchCheck(p) ==
  /\ At(p, "BatchCreate", "check")
  /\ \E grown \in BOOLEAN :
       LET e == createObjectEntry(Store, ProcObj(procs[p]))
           w == SetEntry(Store, procs[p].wb, [key |-> e.key, value |-> e.value], grown)
       IN  IF e.err # ErrNone
           THEN Step(p, Store, immutable,
                     Returned([procs[p] EXCEPT !.wb = << >>], e.err, << >>))
           ELSE Step(p, w.st, immutable,
                     IF w.err # ErrNone
                     THEN Returned([procs[p] EXCEPT !.wb = << >>], w.err, << >>)
                     ELSE [procs[p] EXCEPT !.pc = "name", !.wb = w.wb])

BatchName(p) ==
  /\ At(p, "BatchCreate", "name")
  /\ LET o == ProcObj(procs[p])
     IN  Step(p, insertName(Store, NameOf(o), OwnerOf(o), IdOf(o)), immutable,
              [procs[p] EXCEPT !.pc = "meta"])

\* the metadata write of the k-th object, after which it is marked
BatchMeta(p) ==
  /\ At(p, "BatchCreate", "meta")
  /\ LET o == ProcObj(procs[p])
     IN  Step(p, insertMeta(Store, IdOf(o), o.meta), immutable \cup {IdOf(o)},
              [procs[p] EXCEPT !.k = @ + 1,
                               !.pc = IF procs[p].k = Len(procs[p].objs)
                                      THEN "flush" ELSE "check"])

BatchFlush(p) ==
  /\ At(p, "BatchCreate", "flush")
  /\ IF "payload" \in Store.closed /\ procs[p].wb # << >>
     THEN Step(p, Store, immutable,
               Returned([procs[p] EXCEPT !.wb = << >>], ErrBlockedWrites, << >>))
     ELSE Step(p, Flush(Store, procs[p].wb), immutable,
               Returned([procs[p] EXCEPT !.wb = << >>], ErrNone, << >>))

\* DeleteByID, entered: GetMeta of the identity
DeleteGetMeta(p, ids) ==
  /\ CanCall(p)
  /\ \E id \in ids :
       LET pr == [Idle EXCEPT !.op = "DeleteByID", !.id = id]
           m  == GetMeta(Store, id)
       IN  Step(p, Store, immutable,
                IF m.err # ErrNone THEN Returned(pr, m.err, << >>)
                ELSE [pr EXCEPT !.pc = "name", !.m = m.meta])

\* deleteObject: the three removals, each a transaction of its own
DeleteName(p) ==
  /\ At(p, "DeleteByID", "name")
  /\ Step(p, deleteName(Store, MetaGet(procs[p].m, MetaKeyName),
                        MetaGet(procs[p].m, MetaKeyOwner)),
          immutable, [procs[p] EXCEPT !.pc = "payload"])

DeletePayload(p) ==
  /\ At(p, "DeleteByID", "payload")
  /\ Step(p, deletePayload(Store, MetaGet(procs[p].m, MetaKeyID)), immutable,
          [procs[p] EXCEPT !.pc = "meta"])

DeleteMeta(p) ==
  /\ At(p, "DeleteByID", "meta")
  /\ Step(p, deleteMeta(Store, MetaGet(procs[p].m, MetaKeyID)), immutable,
          Returned(procs[p], ErrNone, << >>))

\* the queries of the goroutines that call Get
GetQueries ==
  {Param(NewQuery, MetaKeyContentType, "text/plain"),
   Param(Param(NewQuery, MetaKeyName, "a"), MetaKeyOwner, U1)}

\* Get, entered: the scan pass
GetScan(p) ==
  /\ CanCall(p)
  /\ \E q \in GetQueries :
       LET pr  == [Idle EXCEPT !.op = "Get", !.q = q]
           ids == getMatchingIDs(Store, q)
       IN  Step(p, Store, immutable,
                IF "meta" \in Store.closed THEN Returned(pr, ErrDBClosed, << >>)
                ELSE IF ids = << >> THEN Returned(pr, ErrNone, << >>)
                ELSE [pr EXCEPT !.pc = "meta", !.ids = ids, !.k = 1])

\* the resolve pass, composeObjectByID of the k-th identity: GetMeta
GetResolveMeta(p) ==
  /\ At(p, "Get", "meta")
  /\ LET m == GetMeta(Store, procs[p].ids[procs[p].k])
     IN  Step(p, Store, immutable,
              IF m.err # ErrNone THEN Returned(procs[p], m.err, << >>)
              ELSE [procs[p] EXCEPT !.pc = "payload", !.m = m.meta])

\* composeObject: GetPayload, and the object put together
GetResolvePayload(p) ==
  /\ At(p, "Get", "payload")
  /\ LET r   == composeObject(Store, procs[p].m)
         res == Append(procs[p].res, r.obj)
     IN  Step(p, Store, immutable,
              IF r.err # ErrNone THEN Returned(procs[p], r.err, << >>)
              ELSE IF procs[p].k = Len(procs[p].ids) THEN Returned(procs[p], ErrNone, res)
              ELSE [procs[p] EXCEPT !.pc = "meta", !.k = @ + 1, !.res = res])

\* one goroutine calling BatchCreate and DeleteByID, seen step by step
NextSteps ==
  \E p \in {"g1"} :
    \/ BatchStart(p)
    \/ BatchCheck(p)
    \/ BatchName(p)
    \/ BatchMeta(p)
    \/ BatchFlush(p)
    \/ DeleteGetMeta(p, Ids)
    \/ DeleteName(p)
    \/ DeletePayload(p)
    \/ DeleteMeta(p)

SpecSteps == Init /\ [][NextSteps]_vars

\* two goroutines calling Create
NextCreateRace ==
  \E p \in Goroutines :
    \/ CreateCheck(p, DOMAIN ObjPool)
    \/ CreatePayload(p)
    \/ CreateName(p)
    \/ CreateMeta(p)

SpecCreateRace == Init /\ [][NextCreateRace]_vars

\* the objects and identities of the goroutines that race: the valid objects,
\* two of which share (name, owner)
RaceObjs == {i \in DOMAIN ObjPool : isValid(ObjPool[i])}

RaceIds == {IdOf(ObjPool[i]) : i \in RaceObjs}

\* two goroutines calling Create and DeleteByID
NextRace ==
  \E p \in Goroutines :
    \/ CreateCheck(p, RaceObjs)
    \/ CreatePayload(p)
    \/ CreateName(p)
    \/ CreateMeta(p)
    \/ DeleteGetMeta(p, RaceIds)
    \/ DeleteName(p)
    \/ DeletePayload(p)
    \/ DeleteMeta(p)

SpecRace == Init /\ [][NextRace]_vars

\* one goroutine calling Get while another calls Create and DeleteByID
NextGetRace ==
  \/ GetScan("g1")
  \/ GetResolveMeta("g1")
  \/ GetResolvePayload("g1")
  \/ CreateCheck("g2", RaceObjs)
  \/ CreatePayload("g2")
  \/ CreateName("g2")
  \/ CreateMeta("g2")
  \/ DeleteGetMeta("g2", RaceIds)
  \/ DeleteName("g2")
  \/ DeletePayload("g2")
  \/ DeleteMeta("g2")

SpecGetRace == Init /\ [][NextGetRace]_vars

(* --------------------------- package bucket ---------------------------- *)
\* The earlier Bucket of package bucket: one map from identity to object
\* (store), one from name to identity (nameDB), and the gc goroutine New
\* starts.  closed: the store has been closed; ticker: the ticker of gc;
\* gc: where the goroutine is in its loop; caller: the goroutine that calls
\* the Bucket, as procs above, one badger transaction a step.
PkgPool ==
  << [id |-> ID1, name |-> "a", meta |-> [color |-> "red"]],
     [id |-> ID2, name |-> "b", meta |-> [color |-> "blue"]],
     [id |-> ID3, name |-> "a", meta |-> [color |-> "blue", size |-> "s"]] >>

PkgKeyOrder == <<"color", "size">>

\* Object.Marshal and Object.Unmarshal of package object
PkgMarshal(obj) ==
  LET keys == SelectSeq(PkgKeyOrder, LAMBDA k : k \in DOMAIN obj.meta)
  IN  [id |-> obj.id, name |-> obj.name,
       meta |-> [i \in 1..Len(keys) |-> <<keys[i], obj.meta[keys[i]]>>]]

PkgUnmarshal(data) ==
  [id |-> data.id, name |-> data.name, meta |-> UnmarshalFrom(data.meta, << >>)]

\* the url.Values the callers of GetByMetasOr pass
MetasSets ==
  { [color |-> <<"blue">>],
    [color |-> <<"red">>, size |-> <<"s">>],
    [size |-> <<"m">>] }

\* What New finds on disk.  The store is opened from the directory of the
\* options and the name map from one fixed directory, so each holds what
\* earlier runs left there: any of the pool objects, and for each name no
\* entry or the identity of a pool object of that name.
LeftStores ==
  {[id \in {PkgPool[i].id : i \in S} |->
      PkgMarshal(CHOOSE o \in {PkgPool[i] : i \in S} : o.id = id)] :
     S \in SUBSET DOMAIN PkgPool}

LeftNames ==
  {[n \in {PkgPool[i].name : i \in S} |->
      (CHOOSE o \in {PkgPool[i] : i \in S} : o.name = n).id] :
     S \in {T \in SUBSET DOMAIN PkgPool :
              \A i, j \in T : i # j => PkgPool[i].name # PkgPool[j].name}}

\* the Bucket New returns: both maps open, gc waiting for its first tick
InitNew ==
  /\ store \in LeftStores
  /\ nameDB \in LeftNames
  /\ closed = FALSE
  /\ ticker = "running"
  /\ gc = "waiting"
  /\ caller = [PkgIdle EXCEPT !.op = "New", !.pc = "done"]

InitPkg == InitBucket /\ InitNew

PkgState == [store |-> store, nameDB |-> nameDB, closed |-> closed]

nameExists(st, n) == n \in DOMAIN st.nameDB

PkgInsertName(st, n, id) == [st EXCEPT !.nameDB = Put(st.nameDB, n, id)]

\* GetByID: the read inside the View of the store
PkgGetByIDOf(st, id) ==
  IF id \notin DOMAIN st.store THEN Result(st, ErrKeyNotFound, FALSE, << >>)
  ELSE Result(st, ErrNone, FALSE, <<PkgUnmarshal(st.store[id])>>)

\* GetByMetasOr, inside the View: the body of the loop over the records
\* returns from the transaction, so only the first record in key order is
\* looked at
GetByMetasOrOf(st, metas) ==
  LET keys == SelectSeq(IdOrder, LAMBDA id : id \in DOMAIN st.store)
  IN  IF keys = << >> THEN Result(st, ErrNone, FALSE, << >>)
      ELSE LET obj == PkgUnmarshal(st.store[Head(keys)])
           IN  IF \E k \in DOMAIN metas :
                    MetaHas(obj.meta, k) /\ MetaGet(obj.meta, k) = metas[k][1]
               THEN Result(st, ErrNone, FALSE, <<obj>>)
               ELSE Result(st, ErrNone, FALSE, << >>)

\* the commit of the Update of Delete, which a closed store refuses
PkgDeleteOf(st, id) ==
  IF st.closed THEN Result(st, ErrBlockedWrites, FALSE, << >>)
  ELSE Result([st EXCEPT !.store = Remove(st.store, id)], ErrNone, FALSE, << >>)

\* the caller is in no call
PkgCanCall == caller.pc \in {"idle", "done"}

PkgAt(op, pc) == caller.op = op /\ caller.pc = pc

PkgEnter(op, arg) == [PkgIdle EXCEPT !.op = op, !.arg = arg]

PkgReturned(cl, err, res) == [cl EXCEPT !.pc = "done", !.err = err, !.res = res]

\* the object the caller is handling
PkgObj(cl) == PkgPool[cl.arg[cl.k]]

\* Where the caller is after the read of a View whose transaction is open and
\* which reads r from the store.  When gc has closed the store since the View
\* was entered, the read goes to a store that has released its tables: it
\* finds what was there, or returns an error, or the process panics.
PkgViewed(cl, r) ==
  {PkgReturned(cl, r.err, r.res)}
    \cup (IF closed
          THEN {PkgReturned(cl, ErrStorage, << >>),
                [cl EXCEPT !.pc = "panicked", !.err = ErrPanic]}
          ELSE {})

\* one transaction of the caller: the maps after it, and where the caller is
PkgStep(st, cl) ==
  /\ store' = st.store
  /\ nameDB' = st.nameDB
  /\ caller' = cl
  /\ UNCHANGED <<closed, ticker, gc>>
  /\ UNCHANGED bucketVars

\* Create, entered: store.Update finds the store closed and returns, or opens
\* its transaction
PkgCreate ==
  /\ PkgCanCall
  /\ \E i \in DOMAIN PkgPool :
       LET cl == [PkgEnter("Create", <<i>>) EXCEPT !.k = 1]
       IN  PkgStep(PkgState,
                   IF closed THEN PkgReturned(cl, ErrDBClosed, << >>)
                   ELSE [cl EXCEPT !.pc = "check"])

\* inside the transaction, nameExists: a View of the name map; a name that
\* is there ends the transaction and the call with an error
PkgCreateCheck ==
  /\ PkgAt("Create", "check")
  /\ PkgStep(PkgState,
             IF nameExists(PkgState, PkgObj(caller).name)
             THEN PkgReturned(caller, ErrNameExists, << >>)
             ELSE [caller EXCEPT !.pc = "commit"])

\* SetEntry and the commit of the transaction, which a store closed since
\* the transaction was opened refuses
PkgCreateCommit ==
  /\ PkgAt("Create", "commit")
  /\ IF closed
     THEN PkgStep(PkgState, PkgReturned(caller, ErrBlockedWrites, << >>))
     ELSE PkgStep([PkgState EXCEPT
                     !.store = Put(@, PkgObj(caller).id, PkgMarshal(PkgObj(caller)))],
                  [caller EXCEPT !.pc = "name"])

\* insertName, in a transaction of its own, and the return
PkgCreateName ==
  /\ PkgAt("Create", "name")
  /\ PkgStep(PkgInsertName(PkgState, PkgObj(caller).name, PkgObj(caller).id),
             PkgReturned(caller, ErrNone, << >>))

PkgBatches ==
  {b \in UNION {[1..n -> DOMAIN PkgPool] : n \in 0..MaxBatch} :
     \A i, j \in DOMAIN b : i # j => b[i] # b[j]}

\* BatchCreate, entered: a new write batch
PkgBatchCreate ==
  /\ PkgCanCall
  /\ \E b \in PkgBatches :
       PkgStep(PkgState, [PkgEnter("BatchCreate", b) EXCEPT
                            !.k = 1, !.pc = IF b = << >> THEN "flush" ELSE "check"])

\* nameExists of the k-th object and SetEntry of it, with or without room in
\* the pending transaction: without, the batch commits the entries pending,
\* which a closed store refuses.  An error returns, and the deferred Cancel
\* drops the pending entries.
PkgBatchCheck ==
  /\ PkgAt("BatchCreate", "check")
  /\ \E grown \in BOOLEAN :
       LET e == [key |-> PkgObj(caller).id, value |-> PkgMarshal(PkgObj(caller))]
       IN  IF nameExists(PkgState, PkgObj(caller).name)
           THEN PkgStep(PkgState,
                        PkgReturned([caller EXCEPT !.wb = << >>], ErrNameExists, << >>))
           ELSE IF grown /\ caller.wb # << >>
           THEN IF closed
                THEN PkgStep(PkgState,
                             PkgReturned([caller EXCEPT !.wb = << >>], ErrBlockedWrites, << >>))
                ELSE PkgStep([PkgState EXCEPT
                                !.store = Flush([payload |-> @], caller.wb).payload],
                             [caller EXCEPT !.pc = "name", !.wb = <<e>>])
           ELSE PkgStep(PkgState, [caller EXCEPT !.pc = "name", !.wb = Append(@, e)])

PkgBatchName ==
  /\ PkgAt("BatchCreate", "name")
  /\ PkgStep(PkgInsertName(PkgState, PkgObj(caller).name, PkgObj(caller).id),
             [caller EXCEPT !.k = @ + 1,
                            !.pc = IF caller.k = Len(caller.arg) THEN "flush" ELSE "check"])

\* wb.Flush: the entries set are committed together; on a closed store a
\* batch that holds entries is refused, an empty one has nothing to commit
PkgBatchFlush ==
  /\ PkgAt("BatchCreate", "flush")
  /\ IF closed /\ caller.wb # << >>
     THEN PkgStep(PkgState, PkgReturned([caller EXCEPT !.wb = << >>], ErrBlockedWrites, << >>))
     ELSE PkgStep([PkgState EXCEPT !.store = Flush([payload |-> @], caller.wb).payload],
                  PkgReturned([caller EXCEPT !.wb = << >>], ErrNone, << >>))

\* GetByID, entered: store.View finds the store closed and returns, or opens
\* its transaction
PkgGetByID ==
  /\ PkgCanCall
  /\ \E i \in DOMAIN PkgPool :
       LET cl == [PkgEnter("GetByID", PkgPool[i].id) EXCEPT !.id = PkgPool[i].id]
       IN  PkgStep(PkgState,
                   IF closed THEN PkgReturned(cl, ErrDBClosed, << >>)
                   ELSE [cl EXCEPT !.pc = "read"])

\* the read inside the View of GetByID, called from outside or by GetByName
PkgGetByIDRead ==
  /\ caller.pc = "read"
  /\ \E cl \in PkgViewed(caller, PkgGetByIDOf(PkgState, caller.id)) :
       PkgStep(PkgState, cl)

\* GetByName, entered: the View of the name map
PkgGetByName ==
  /\ PkgCanCall
  /\ \E i \in DOMAIN PkgPool :
       LET cl == PkgEnter("GetByName", PkgPool[i].name)
       IN  PkgStep(PkgState,
                   IF ~nameExists(PkgState, PkgPool[i].name)
                   THEN PkgReturned(cl, ErrKeyNotFound, << >>)
                   ELSE [cl EXCEPT !.pc = "store", !.id = nameDB[PkgPool[i].name]])

\* GetByID of the identity read, entered
PkgGetByNameStore ==
  /\ PkgAt("GetByName", "store")
  /\ PkgStep(PkgState,
             IF closed THEN PkgReturned(caller, ErrDBClosed, << >>)
             ELSE [caller EXCEPT !.pc = "read"])

\* GetByMetasOr, entered: store.View finds the store closed and returns, or
\* opens its transaction
GetByMetasOr ==
  /\ PkgCanCall
  /\ \E metas \in MetasSets :
       LET cl == PkgEnter("GetByMetasOr", metas)
       IN  PkgStep(PkgState,
                   IF closed THEN PkgReturned(cl, ErrDBClosed, << >>)
                   ELSE [cl EXCEPT !.pc = "scan"])

\* the iterator over the store inside the View
GetByMetasOrScan ==
  /\ PkgAt("GetByMetasOr", "scan")
  /\ \E cl \in PkgViewed(caller, GetByMetasOrOf(PkgState, caller.arg)) :
       PkgStep(PkgState, cl)

\* Delete, entered: store.Update finds the store closed and returns, or opens
\* its transaction
PkgDelete ==
  /\ PkgCanCall
  /\ \E i \in DOMAIN PkgPool :
       LET cl == PkgEnter("Delete", PkgPool[i].id)
       IN  PkgStep(PkgState,
                   IF closed THEN PkgReturned(cl, ErrDBClosed, << >>)
                   ELSE [cl EXCEPT !.pc = "commit"])

\* txn.Delete and the commit of the transaction
PkgDeleteCommit ==
  /\ PkgAt("Delete", "commit")
  /\ LET r == PkgDeleteOf(PkgState, caller.arg)
     IN  PkgStep(r.st, PkgReturned(caller, r.err, r.res))

\* one step of the gc goroutine, in a process that has not panicked
GcStep(c, t, g) ==
  /\ caller.pc # "panicked"
  /\ closed' = c
  /\ ticker' = t
  /\ gc' = g
  /\ UNCHANGED <<store, nameDB, caller>>
  /\ UNCHANGED bucketVars

\* The tick arrives and gc calls store.Close(): it returns nil with the store
\* closed, or an error, with the store closed or not, which ends the goroutine.
gcClose ==
  /\ gc = "waiting"
  /\ ticker = "running"
  /\ \/ GcStep(TRUE, ticker, "stop")
     \/ \E c \in BOOLEAN : GcStep(closed \/ c, ticker, "returned")

\* ticker.Stop()
gcStop ==
  /\ gc = "stop"
  /\ GcStep(closed, "stopped", "collect")

\* RunValueLogGC on the closed store: an error ends the goroutine, nil leaves
\* it waiting on the stopped ticker
gcCollect ==
  /\ gc = "collect"
  /\ \E g \in {"returned", "waiting"} : GcStep(closed, ticker, g)

NextPkg ==
  \/ PkgCreate
  \/ PkgCreateCheck
  \/ PkgCreateCommit
  \/ PkgCreateName
  \/ PkgBatchCreate
  \/ PkgBatchCheck
  \/ PkgBatchName
  \/ PkgBatchFlush
  \/ PkgGetByID
  \/ PkgGetByIDRead
  \/ PkgGetByName
  \/ PkgGetByNameStore
  \/ GetByMetasOr
  \/ GetByMetasOrScan
  \/ PkgDelete
  \/ PkgDeleteCommit
  \/ gcClose
  \/ gcStop
  \/ gcCollect

SpecPkg == InitPkg /\ [][NextPkg]_vars

(* ------------------------------ properties ----------------------------- *)
Maps == <<payload, name, meta>>

ObjOfId(id) == CHOOSE o \in Objs : MetaGet(o.meta, MetaKeyID) = id

ResIds(res) == {IdOf(res[i]) : i \in DOMAIN res}

ValidationErrors ==
  {ErrEmptyQuery, ErrInvalidOwnerUUID, ErrInvalidIDUUID, ErrNameOwnerCtxMissing}

\* the three maps agree: the same ids are the keys of the payload map, the
\* keys of the metadata map and the values of the name map, and the name key
\* of each id is built from the name and owner of its metadata record
Consistent(st) ==
  /\ DOMAIN st.payload = DOMAIN st.meta
  /\ DOMAIN st.meta = {st.name[k] : k \in DOMAIN st.name}
  /\ \A k \in DOMAIN st.name :
       st.name[k] \in DOMAIN st.meta =>
         LET m == Unmarshal(st.meta[st.name[k]])
         IN  k = nameFormat(MetaGet(m, MetaKeyName), MetaGet(m, MetaKeyOwner))

\* C1: from mutually consistent maps, a Create, BatchCreate, DeleteByID,
\* DeleteByName or Delete(query) that returns success ends in mutually
\* consistent maps.
C1_SuccessKeepsConsistent ==
  [][(/\ Consistent(Store)
      /\ last'.op \in {"Create", "BatchCreate", "DeleteByID", "DeleteByName", "Delete"}
      /\ last'.err = ErrNone)
     => Consistent(Store')]_vars

C1_Witness ==
  /\ last.op = "DeleteByID"
  /\ last.err = ErrNone
  /\ Consistent(Store)
  /\ Cardinality(DOMAIN payload) = 1

\* C2: a Create of a valid object whose (name, owner) has an entry in the
\* name map fails with the conflict error and changes none of the three
\* maps, so every GetByID and GetByName answers as before.
C2_ConflictChangesNothing ==
  [][(/\ last'.op = "Create"
      /\ isValid(ObjPool[last'.objs[1]])
      /\ nameFormat(NameOf(ObjPool[last'.objs[1]]), OwnerOf(ObjPool[last'.objs[1]]))
           \in DOMAIN name)
     => /\ last'.err = ErrNameExists
        /\ Maps' = Maps
        /\ \A id \in Ids : GetByIDOf(Store', id) = GetByIDOf(Store, id)
        /\ \A no \in NameOwners :
             GetByNameOf(Store', no[1], no[2]) = GetByNameOf(Store, no[1], no[2])]_vars

C2_Witness ==
  /\ last.op = "Create"
  /\ last.err = ErrNameExists
  /\ last.objs = <<2>>
  /\ GetByIDOf(Store, ID1) = [err |-> ErrNone, obj |-> ObjPool[1]]
  /\ GetByNameOf(Store, "a", U1) = [err |-> ErrNone, obj |-> ObjPool[1]]

\* the call of a step is a delete aimed at id
DeletesId(st, call, id) ==
  \/ call.op = "DeleteByID" /\ call.id = id
  \/ /\ call.op = "DeleteByName"
     /\ getIDByName(st, call.nm, call.owner) = [err |-> ErrNone, id |-> id]
  \/ /\ call.op = "Delete"
     /\ \E i \in DOMAIN getMatchingIDs(st, call.q) : getMatchingIDs(st, call.q)[i] = id
  \/ /\ call.op = "Execute"
     /\ call.q.op = OperationDelete
     /\ call.err \notin ValidationErrors
     /\ \E i \in DOMAIN getMatchingIDs(st, call.q) : getMatchingIDs(st, call.q)[i] = id

\* C3: after a successful Create(o), GetByID(o.id) returns an object with
\* the name, owner, metadata map and payload bytes of o, and goes on doing so
\* in every call on the open bucket that is not a delete of o.
C3_CreateGetRoundTrip ==
  [][/\ (last'.op = "Create" /\ last'.err = ErrNone)
          => GetByIDOf(Store', IdOf(ObjPool[last'.objs[1]]))
               = [err |-> ErrNone, obj |-> ObjPool[last'.objs[1]]]
     /\ \A id \in Ids :
          (GetByIDOf(Store, id).err = ErrNone /\ ~DeletesId(Store, last', id) /\ shut' = {})
            => GetByIDOf(Store', id) = GetByIDOf(Store, id)]_vars

C3_Witness ==
  /\ last.op = "GetByID"
  /\ last.err = ErrNone
  /\ last.res = <<ObjPool[1]>>
  /\ ObjPool[1].pl = <<1, 2>>

\* no map holds an entry for the object and no lookup finds it
Lost(st, o) ==
  /\ IdOf(o) \notin DOMAIN st.payload
  /\ IdOf(o) \notin DOMAIN st.meta
  /\ \A k \in DOMAIN st.name : st.name[k] # IdOf(o)
  /\ GetByIDOf(st, IdOf(o)).err = ErrKeyNotFound
  /\ GetByNameOf(st, NameOf(o), OwnerOf(o)).err = ErrKeyNotFound

\* no Get(query) returns the object
InNoQuery(st, o) ==
  \A q \in Queries :
    q.op = OperationGet => IdOf(o) \notin ResIds(GetOf(st, q, NoFault).res)

\* the call of a step is a Create or BatchCreate of an object with the name
\* and owner of o
ReusesName(call, o) ==
  /\ call.op \in {"Create", "BatchCreate"}
  /\ \E i \in DOMAIN call.objs :
       /\ NameOf(ObjPool[call.objs[i]]) = NameOf(o)
       /\ OwnerOf(ObjPool[call.objs[i]]) = OwnerOf(o)

\* C4: after a successful DeleteByID(id) the object is gone (GetByID and
\* GetByName answer not-found, no map holds an entry for it), it stays gone
\* until a create uses its name and owner again (the lookups answer so while
\* the bucket is open), and an object that is gone is returned by no
\* Get(query).
C4_DeleteCompleteness ==
  /\ [](\A o \in Objs : Lost(Store, o) => InNoQuery(Store, o))
  /\ [][/\ (last'.op = "DeleteByID" /\ last'.err = ErrNone)
             => Lost(Store', ObjOfId(last'.id))
        /\ \A o \in Objs :
             (Lost(Store, o) /\ ~ReusesName(last', o) /\ shut' = {}) => Lost(Store', o)]_vars

C4_Witness ==
  /\ last.op = "DeleteByID"
  /\ last.err = ErrNone
  /\ last.id = ID1
  /\ Lost(Store, ObjPool[1])
  /\ InNoQuery(Store, ObjPool[1])
  /\ GetByIDOf(Store, ID3).err = ErrNone

\* the (name, owner) pairs of the objects the name map points to
TakenPairs(st) ==
  {<<NameOf(ObjOfId(st.name[k])), OwnerOf(ObjOfId(st.name[k]))>> : k \in DOMAIN st.name}

NameSamples == {"a", "b", "a_b", "a_" \o U1, "a_" \o U1 \o "_" \o U2}

OwnerSamples == {w \in {U1, U2, ID1, "b_" \o U1, ""} : isValidUUID(w)}

\* C5: names are unique per owner: on the open bucket, a Create of a valid
\* object succeeds when no stored object has both its name and its owner,
\* whatever other owners hold the name, and leaves every other (name, owner)
\* lookup as it was; two different (name, owner) pairs with valid owners never
\* share a name key.
C5_NamePerOwner ==
  /\ [](\A n1, n2 \in NameSamples, w1, w2 \in OwnerSamples :
          <<n1, w1>> # <<n2, w2>> => nameFormat(n1, w1) # nameFormat(n2, w2))
  /\ [][(/\ last'.op = "Create"
         /\ shut = {}
         /\ isValid(ObjPool[last'.objs[1]])
         /\ <<NameOf(ObjPool[last'.objs[1]]), OwnerOf(ObjPool[last'.objs[1]])>>
              \notin TakenPairs(Store))
        => /\ last'.err = ErrNone
           /\ GetByNameOf(Store', NameOf(ObjPool[last'.objs[1]]),
                          OwnerOf(ObjPool[last'.objs[1]]))
                = [err |-> ErrNone, obj |-> ObjPool[last'.objs[1]]]
           /\ \A no \in NameOwners :
                no # <<NameOf(ObjPool[last'.objs[1]]), OwnerOf(ObjPool[last'.objs[1]])>>
                  => GetByNameOf(Store', no[1], no[2]) = GetByNameOf(Store, no[1], no[2])]_vars

C5_Witness ==
  /\ last.op = "Create"
  /\ last.err = ErrNone
  /\ last.objs = <<3>>
  /\ GetByNameOf(Store, "a", U1) = [err |-> ErrNone, obj |-> ObjPool[1]]
  /\ GetByNameOf(Store, "a", U2) = [err |-> ErrNone, obj |-> ObjPool[3]]

\* the error the validity rules give a query: params must not be empty, an
\* owner or id param that is present must be a UUID, a name param needs an
\* owner param
SpecQueryError(q) ==
  IF DOMAIN q.params = {} THEN ErrEmptyQuery
  ELSE IF MetaKeyOwner \in DOMAIN q.params /\ ~isValidUUID(q.params[MetaKeyOwner])
  THEN ErrInvalidOwnerUUID
  ELSE IF MetaKeyID \in DOMAIN q.params /\ ~isValidUUID(q.params[MetaKeyID])
  THEN ErrInvalidIDUUID
  ELSE IF MetaKeyName \in DOMAIN q.params /\ MetaKeyOwner \notin DOMAIN q.params
  THEN ErrNameOwnerCtxMissing
  ELSE ErrNone

\* a metadata record matches a query: under OR some param key is in the record
\* with an equal value, under AND every non-empty param key is
SpecMatches(m, q) ==
  IF q.act = Or
  THEN \E k \in DOMAIN q.params : k \in DOMAIN m /\ m[k] = q.params[k]
  ELSE \A k \in DOMAIN q.params :
         q.params[k] # "" => (k \in DOMAIN m /\ m[k] = q.params[k])

MatchingIds(st, q) ==
  {id \in DOMAIN st.meta : SpecMatches(Unmarshal(st.meta[id]), q)}

\* C6 as claimed: for every store content, Get(q) of a valid query on the
\* open bucket returns exactly the objects whose metadata record matches q.
C6_GetExactlyMatches ==
  (last.op = "Get" /\ shut = {} /\ SpecQueryError(last.q) = ErrNone)
    => /\ last.err = ErrNone
       /\ ResIds(last.res) = MatchingIds(Store, last.q)

\* C6: Get(q) of a valid query on the open bucket returns exactly the objects
\* whose metadata record matches q, each once and with its stored metadata
\* and payload, when every matching id has a payload entry; when some
\* matching id has none it fails with not-found and returns no object.
C6_GetMatchesOrNotFound ==
  (last.op = "Get" /\ shut = {} /\ SpecQueryError(last.q) = ErrNone)
    => IF MatchingIds(Store, last.q) \subseteq DOMAIN payload
       THEN /\ last.err = ErrNone
            /\ ResIds(last.res) = MatchingIds(Store, last.q)
            /\ Len(last.res) = Cardinality(MatchingIds(Store, last.q))
            /\ \A i \in DOMAIN last.res :
                 last.res[i] = [meta |-> Unmarshal(meta[IdOf(last.res[i])]),
                                pl |-> payload[IdOf(last.res[i])].pl]
       ELSE last.err = ErrKeyNotFound /\ last.res = << >>

C6_Witness ==
  /\ last.op = "Get"
  /\ last.q.params = [contentType |-> "text/plain", owner |-> U2]
  /\ last.q.act = And
  /\ last.res = <<ObjPool[3]>>
  /\ GetByIDOf(Store, ID1).err = ErrNone
  /\ ResIds(GetOf(Store, Action(last.q, Or), NoFault).res) = {ID1, ID3}

\* C7: Execute answers a query with the error of the validity rules: the
\* empty-query error for no params, a UUID error only for an owner or id
\* param that is present and malformed, the name-owner-missing error for a
\* name param without an owner param, and no validation error otherwise.
C7_QueryValidation ==
  last.op = "Execute"
    => IF SpecQueryError(last.q) # ErrNone
       THEN last.err = SpecQueryError(last.q)
       ELSE last.err \notin ValidationErrors

\* C8: Execute, Get and Delete answer an invalid query with a validation
\* error and leave the three maps as they were.
C8_InvalidQueryTouchesNothing ==
  [][(last'.op \in {"Execute", "Get", "Delete"} /\ SpecQueryError(last'.q) # ErrNone)
     => (last'.err \in ValidationErrors /\ Maps' = Maps)]_vars

\* C9: a Create or BatchCreate that returns an object validation error has
\* changed none of the three maps.
C9_InvalidObjectTouchesNothing ==
  [][(last'.op \in {"Create", "BatchCreate"} /\ last'.err = ErrInvalidObject)
     => Maps' = Maps]_vars

\* the object whose write failed in the last call
FailedObj == ObjPool[last.objs[last.fault.k]]

\* C10 as claimed: when the name write of object k fails in BatchCreate, the
\* payload map holds the entry of object k and the name map holds none.
C10_PayloadKeptNameAbsent ==
  (last.op = "BatchCreate" /\ last.fault.step = "name")
    => /\ IdOf(FailedObj) \in DOMAIN payload
       /\ nameFormat(NameOf(FailedObj), OwnerOf(FailedObj)) \notin DOMAIN name

\* C10: when the name write of object k fails in BatchCreate, the call
\* returns that error, the payload write of object k is dropped with the
\* cancelled write batch (the payload map holds for k what it held before the
\* call) and the name map holds no entry for object k.
C10_PayloadDroppedNameAbsent ==
  [][(last'.op = "BatchCreate" /\ last'.fault.step = "name")
     => /\ last'.err = ErrStorage
        /\ GetPayload(Store', IdOf(FailedObj')) = GetPayload(Store, IdOf(FailedObj'))
        /\ nameFormat(NameOf(FailedObj'), OwnerOf(FailedObj')) \notin DOMAIN name']_vars

C10_Witness ==
  /\ last.op = "BatchCreate"
  /\ last.fault = [k |-> 2, step |-> "name"]
  /\ last.err = ErrStorage
  /\ IdOf(FailedObj) \notin DOMAIN payload
  /\ IdOf(ObjPool[last.objs[1]]) \in DOMAIN meta
  /\ IdOf(ObjPool[last.objs[1]]) \notin DOMAIN payload

\* the identities whose name, payload and metadata entries are all committed
Committed(st) ==
  {id \in DOMAIN st.payload \cap DOMAIN st.meta :
     LET k == nameFormat(NameOf(ObjOfId(id)), OwnerOf(ObjOfId(id)))
     IN  k \in DOMAIN st.name /\ st.name[k] = id}

\* C12: an object is marked immutable only by a call that leaves its payload,
\* name and metadata entries committed, and a Create or BatchCreate that
\* returns an error marks no object that was mutable before the call.
C12_ImmutableOnlyAfterSuccess ==
  [][/\ (immutable' \ immutable) \subseteq Committed(Store')
     /\ (last'.op \in {"Create", "BatchCreate"} /\ last'.err # ErrNone)
          => immutable' = immutable]_vars

\* C13: a Delete whose scan of the metadata-index fails returns an error.
C13_DeleteReportsScanError ==
  (last.op = "Delete" /\ last.fault = ScanFault) => last.err # ErrNone

\* the object of the last Create
CreatedObj == ObjPool[last.objs[1]]

\* C17: Create writes the payload, then the name entry, then the metadata
\* entry, and undoes nothing: when the name write fails the call returns the
\* error with the payload entry present and no name or metadata entry; when
\* the metadata write fails, with the payload and name entries present and no
\* metadata entry; in both cases the immutable flag of the object is as it
\* was before the call.
C17_CreateWriteOrderNoRollback ==
  [][(last'.op = "Create" /\ last'.fault.step \in {"name", "meta"})
     => LET o  == CreatedObj'
            id == IdOf(o)
        IN  /\ last'.err = ErrStorage
            /\ GetPayload(Store', id).err = ErrNone
            /\ id \notin DOMAIN meta'
            /\ last'.fault.step = "name" => NameKeyOf(o) \notin DOMAIN name'
            /\ last'.fault.step = "meta" =>
                 getIDByName(Store', NameOf(o), OwnerOf(o)) = [err |-> ErrNone, id |-> id]
            /\ immutable' = immutable]_vars

C17_Witness ==
  /\ last.op = "Create"
  /\ last.fault.step = "meta"
  /\ last.err = ErrStorage
  /\ IdOf(CreatedObj) \in DOMAIN payload
  /\ NameKeyOf(CreatedObj) \in DOMAIN name
  /\ IdOf(CreatedObj) \notin DOMAIN meta
  /\ IdOf(CreatedObj) \notin immutable

\* the entries a Create of o leaves when its metadata write fails
Orphaned(st, o) ==
  /\ IdOf(o) \in DOMAIN st.payload
  /\ getIDByName(st, NameOf(o), OwnerOf(o)) = [err |-> ErrNone, id |-> IdOf(o)]
  /\ IdOf(o) \notin DOMAIN st.meta

\* C19: a Create of o that fails at the metadata write leaves the payload and
\* name entries of o without a metadata entry, and from then on, with no
\* further storage failure, every call keeps them: a Create of a valid object
\* with the (name, owner) of o returns the conflict error, DeleteByName of
\* that (name, owner) and DeleteByID of the identity of o return not-found.
C19_OrphanBlocksName ==
  [][/\ (last'.op = "Create" /\ last'.fault.step = "meta") => Orphaned(Store', CreatedObj')
     /\ \A o \in Objs :
          (faulted /\ Orphaned(Store, o)) =>
            /\ Orphaned(Store', o)
            /\ (/\ last'.op = "Create"
                /\ isValid(CreatedObj')
                /\ NameKeyOf(CreatedObj') = NameKeyOf(o)) => last'.err = ErrNameExists
            /\ (/\ last'.op = "DeleteByName"
                /\ nameFormat(last'.nm, last'.owner) = NameKeyOf(o))
                 => last'.err = ErrKeyNotFound
            /\ (last'.op = "DeleteByID" /\ last'.id = IdOf(o))
                 => last'.err = ErrKeyNotFound]_vars

\* the name of an orphaned object has been asked for again and refused
C19_Witness ==
  /\ faulted
  /\ last.fault = NoFault
  /\ \E o \in Objs :
       /\ Orphaned(Store, o)
       /\ \/ last.op = "Create" /\ last.err = ErrNameExists
                                /\ NameKeyOf(CreatedObj) = NameKeyOf(o)
          \/ last.op = "DeleteByName" /\ last.err = ErrKeyNotFound
                                      /\ nameFormat(last.nm, last.owner) = NameKeyOf(o)

\* the objects of the batch goroutine g1 is creating, and their identities
BatchOf(pr) == [i \in DOMAIN pr.objs |-> ObjPool[pr.objs[i]]]

BatchIds(pr) == {IdOf(ObjPool[pr.objs[i]]) : i \in DOMAIN pr.objs}

\* the positions of the batch that createObjectEntry has not looked at yet
Pending(pr) ==
  IF pr.pc = "check" THEN pr.k..Len(pr.objs) ELSE (pr.k + 1)..Len(pr.objs)

\* a BatchCreate under way whose objects are valid, differ pairwise in
\* (name, owner), and were not in the store when the call began: the entries
\* of the positions already handled were written by the call itself
FreshBatch(pr) ==
  /\ pr.op = "BatchCreate"
  /\ pr.pc # "done"
  /\ \A i \in DOMAIN pr.objs : isValid(BatchOf(pr)[i])
  /\ \A i, j \in DOMAIN pr.objs :
       i # j => NameKeyOf(BatchOf(pr)[i]) # NameKeyOf(BatchOf(pr)[j])
  /\ \A i \in Pending(pr) : NameKeyOf(BatchOf(pr)[i]) \notin DOMAIN name

\* C11: a BatchCreate of valid objects with pairwise distinct (name, owner)
\* not yet in the store holds none of their payload entries until its flush,
\* which adds all of them in one step; the call then returns success and
\* GetByID returns each object of the batch.
C11_BatchPayloadAllOrNone ==
  /\ [](FreshBatch(procs["g1"]) => BatchIds(procs["g1"]) \cap DOMAIN payload = {})
  /\ [][FreshBatch(procs["g1"]) =>
          /\ payload' = payload \/ BatchIds(procs["g1"]) \subseteq DOMAIN payload'
          /\ procs'["g1"].pc = "done" =>
               /\ procs'["g1"].err = ErrNone
               /\ \A i \in DOMAIN procs["g1"].objs :
                    GetByIDOf(Store', IdOf(BatchOf(procs["g1"])[i]))
                      = [err |-> ErrNone, obj |-> BatchOf(procs["g1"])[i]]]_vars

\* goroutines p and q have both returned from a successful Create, of two
\* different objects that share (name, owner)
BothCreated(p, q) ==
  /\ p # q
  /\ procs[p].op = "Create" /\ procs[p].pc = "done" /\ procs[p].err = ErrNone
  /\ procs[q].op = "Create" /\ procs[q].pc = "done" /\ procs[q].err = ErrNone
  /\ procs[p].objs # procs[q].objs
  /\ NameKeyOf(ProcObj(procs[p])) = NameKeyOf(ProcObj(procs[q]))

\* C14: when two Creates of different valid objects that share (name, owner)
\* have both returned success, the payload and metadata maps hold both
\* objects, each with that name and owner, and the one name entry of the pair
\* maps to one of the two identities.
C14_BothCreatesSucceed ==
  \A p, q \in Goroutines :
    BothCreated(p, q) =>
      LET a == ProcObj(procs[p])
          b == ProcObj(procs[q])
      IN  /\ GetByIDOf(Store, IdOf(a)) = [err |-> ErrNone, obj |-> a]
          /\ GetByIDOf(Store, IdOf(b)) = [err |-> ErrNone, obj |-> b]
          /\ getIDByName(Store, NameOf(a), OwnerOf(a)).err = ErrNone
          /\ getIDByName(Store, NameOf(a), OwnerOf(a)).id \in {IdOf(a), IdOf(b)}

\* both Creates have returned success: two objects under one (name, owner)
C14_Witness ==
  /\ BothCreated("g1", "g2")
  /\ {ID1, ID2} \subseteq DOMAIN payload \cap DOMAIN meta
  /\ DOMAIN name = {NameKeyOf(ObjPool[1])}
  /\ name[NameKeyOf(ObjPool[1])] = ID1

\* goroutine g1 is in the resolve pass of Get, at the identity id
Resolving(id) ==
  /\ procs["g1"].op = "Get"
  /\ procs["g1"].pc \in {"meta", "payload"}
  /\ procs["g1"].ids[procs["g1"].k] = id

\* goroutine g1 takes a step
GetStep == procs'["g1"] # procs["g1"]

\* goroutine g2 is in DeleteByID of id and has done the removals up to pc
Deleting(id, pcs) ==
  /\ procs["g2"].op = "DeleteByID"
  /\ procs["g2"].id = id
  /\ procs["g2"].err = ErrNone
  /\ procs["g2"].pc \in pcs

GetNotFound(pr) == pr.pc = "done" /\ pr.err = ErrKeyNotFound /\ pr.res = << >>

\* C15 as claimed: once a DeleteByID of a scanned identity has removed the
\* name entry, the payload entry or the metadata entry, the resolve pass of
\* Get ends at that identity with not-found and no objects.
C15_GetNotFoundAtAnyDeleteStep ==
  [][\A id \in RaceIds :
       (/\ Resolving(id)
        /\ procs["g1"].pc = "payload"
        /\ GetStep
        /\ Deleting(id, {"payload", "meta", "done"}))
         => GetNotFound(procs'["g1"])]_vars

\* C15: Get returns either objects or not-found with no objects; a resolve
\* step that reads an entry a DeleteByID has removed (the payload entry, or
\* the metadata entry) ends the call with not-found and no objects; while the
\* delete has removed the name entry only, the resolve pass still puts the
\* object together from its stored metadata and payload.
C15_GetNotFoundOnceEntryGone ==
  /\ [](procs["g1"].op = "Get" =>
          /\ procs["g1"].err \in {ErrNone, ErrKeyNotFound}
          /\ procs["g1"].err = ErrKeyNotFound => procs["g1"].res = << >>
          /\ \A i \in DOMAIN procs["g1"].res :
               procs["g1"].res[i] = ObjOfId(procs["g1"].ids[i]))
  /\ [][\A id \in RaceIds :
          (Resolving(id) /\ GetStep) =>
            /\ (procs["g1"].pc = "meta" /\ Deleting(id, {"done"}))
                 => GetNotFound(procs'["g1"])
            /\ (procs["g1"].pc = "payload" /\ Deleting(id, {"meta", "done"}))
                 => GetNotFound(procs'["g1"])
            /\ (procs["g1"].pc = "payload" /\ Deleting(id, {"payload"}))
                 => /\ procs'["g1"].err = ErrNone
                    /\ procs'["g1"].res = Append(procs["g1"].res, ObjOfId(id))]_vars

\* Get has met an identity whose payload a DeleteByID under way has removed
C15_Witness ==
  /\ procs["g1"].op = "Get"
  /\ GetNotFound(procs["g1"])
  /\ Deleting(procs["g1"].ids[procs["g1"].k], {"meta"})
  /\ procs["g1"].ids[procs["g1"].k] \in DOMAIN meta

\* C20: the name removal of a DeleteByID of id takes away a name entry only
\* if the entry maps to id: it never removes the name entry of another object
\* that is still stored.
C20_DeleteKeepsOthersName ==
  [][\A p \in Goroutines :
       (At(p, "DeleteByID", "name") /\ procs'[p] # procs[p]) =>
         \A key \in DOMAIN name \ DOMAIN name' :
           \/ name[key] = procs[p].id
           \/ GetByIDOf(Store, name[key]).err # ErrNone]_vars

\* the stored objects whose metadata has a key of metas with its first value
MetasMatches(st, metas) ==
  {PkgUnmarshal(st.store[id]) : id \in
     {x \in DOMAIN st.store :
        \E k \in DOMAIN metas :
          /\ MetaHas(PkgUnmarshal(st.store[x]).meta, k)
          /\ MetaGet(PkgUnmarshal(st.store[x]).meta, k) = metas[k][1]}}

\* C16: GetByMetasOr returns every stored object whose metadata has one of
\* the given keys with the given value, wherever it stands in key order.
C16_GetByMetasOrReturnsAll ==
  (PkgAt("GetByMetasOr", "done") /\ caller.err = ErrNone) =>
    {caller.res[i] : i \in DOMAIN caller.res} = MetasMatches(PkgState, caller.arg)

\* C18: the gc goroutine leaves the store open and goes on ticking, and no
\* call of Create, GetByID or Delete fails or panics because the store was
\* closed.
C18_GcKeepsStoreUsable ==
  /\ ~closed
  /\ ticker = "running"
  /\ gc # "returned"
  /\ (caller.pc \in {"done", "panicked"} /\ caller.op \in {"Create", "GetByID", "Delete"}) =>
       caller.err \notin {ErrDBClosed, ErrBlockedWrites, ErrStorage, ErrPanic}

====
